---- MODULE Spec2Model ----
(***************************************************************************)
(* Cache blocking of a sparse matrix (src/20_cache_blocking.py): the       *)
(* blocking stage (run_sample, count_by_quadrant, create_block,            *)
(* clip_block, run_blocking and the module's defensive 1x1 pass), the      *)
(* superblock arrangement (construct_superblock) and the serializer's      *)
(* totals (write_superblocks).                                             *)
(*                                                                         *)
(* The source is Python 2: "/" on ints is floor division and "%" takes the *)
(* sign of the divisor.  A coordinate is a pair <<row, col>>.  A real      *)
(* number of the source (a rate, a density) is kept as a pair of integers  *)
(* <<numerator, denominator>>.                                             *)
(***************************************************************************)
EXTENDS Integers, Sequences, FiniteSets, TLC

(***************************************************************************)
(* Program constants.                                                      *)
(***************************************************************************)
CACHE_LINE == 64
DATA_SIZE == 4
BLOCK_OVERHEAD == 3
CACHE_LINE_SIZE == CACHE_LINE \div DATA_SIZE
PAGE_SIZE == 80
CACHE_BLOCK_COLS == PAGE_SIZE \div DATA_SIZE
CACHE_BLOCK_ROWS == PAGE_SIZE \div DATA_SIZE
\* BLOCK_ID_TO_SIZE: a dictionary with the keys 1..4
BLOCK_ID_KEYS == 1..4
BLOCK_ID_TO_SIZE(id) == BLOCK_OVERHEAD + id * id
\* sampling_rate = quadrant_sampling_rate = 0.2, quadrant_threshold = 0.5
sampling_rate_num == 2
sampling_rate_den == 10
sampling_rate == <<sampling_rate_num, sampling_rate_den>>
quadrant_threshold_num == 1
quadrant_threshold_den == 2
quadrant_threshold == <<quadrant_threshold_num, quadrant_threshold_den>>
height == 7
width == 7
\* construct_superblock asks the index for k=20 neighbours
QUERY_K == 20

(***************************************************************************)
(* Bounds of the model.                                                    *)
(***************************************************************************)
\* the model's matrices hold at most MaxNnz nonzeros
MaxNnz == 3
\* a first-level draw holds at most MaxHot cells chosen for being nonzero
MaxHot == 2
\* the nonzeros lie in the last Box rows and the last Box columns
Box == 4
\* the matrices of isolated nonzeros hold at most MaxFar nonzeros
MaxFar == 5
\* a sample on its own enumerates every draw on regions of up to MaxEnum cells
MaxEnum == 16

(***************************************************************************)
(* Python arithmetic.                                                      *)
(***************************************************************************)
\* a / b on Python 2 ints: floor division (b # 0)
PyDiv(a, b) == a \div b
\* a % b on Python ints: a - b * floor(a / b), the sign of b
PyMod(a, b) == a - b * (a \div b)
Min2(a, b) == IF a < b THEN a ELSE b
Max2(a, b) == IF a > b THEN a ELSE b
SetMin(S) == CHOOSE x \in S : \A y \in S : x <= y
SetMax(S) == CHOOSE x \in S : \A y \in S : x >= y
Abs(a) == IF a < 0 THEN -a ELSE a
\* p > q for p = <<a, b>>, q = <<c, d>> with b, d > 0
RatGt(p, q) == p[1] * q[2] > q[1] * p[2]
RatEq(p, q) == p[1] * q[2] = q[1] * p[2]
\* the cells of the inclusive range [rs..re] x [cs..ce] (empty if re < rs)
Rect(rs, re, cs, ce) == (rs..re) \X (cs..ce)

(***************************************************************************)
(* run_sample.  random.sample(xrange(range_size), num_samples) is an input *)
(* of the call: a set `draw` of num_samples distinct indices.  The result  *)
(* list is kept as the set of its entries <<index, (row, col),             *)
(* is_nonzero>>, one entry per drawn index.                                *)
(***************************************************************************)
range_size(row_start, row_end, col_start, col_end) ==
    (row_end - row_start + 1) * (col_end - col_start + 1)

\* int(range_size * sampling_rate)
num_samples(rate, row_start, row_end, col_start, col_end) ==
    (range_size(row_start, row_end, col_start, col_end) * rate[1]) \div rate[2]

\* the cell an index i is turned into: row and col are both taken with the
\* number of rows, and the seed is moved one column to the right
SampleCell(i, row_start, row_end, col_start, middle_row, middle_col) ==
    LET row == PyDiv(i, row_end - row_start + 1) + row_start
        col == PyMod(i, row_end - row_start + 1) + col_start
    IN  IF row = middle_row /\ col = middle_col THEN <<row, col + 1>>
                                                 ELSE <<row, col>>

\* a cell is reported nonzero if it is a nonzero not yet in a block
IsNonzero(locs, blkd, cell) ==
    IF cell \in locs /\ cell \notin blkd THEN 1 ELSE 0

run_sample(locs, blkd, rate, row_start, row_end, col_start, col_end, middle_row, middle_col, draw) ==
    LET cellOf(i) == SampleCell(i, row_start, row_end, col_start,
                                middle_row, middle_col)
        results == {<<i, cellOf(i), IsNonzero(locs, blkd, cellOf(i))>> : i \in draw}
        nz == Cardinality({r \in results : r[3] = 1})
        n == num_samples(rate, row_start, row_end, col_start, col_end)
    IN  [results |-> results,
         num_nonzeros |-> nz,
         num_samples |-> n,
         \* num_nonzeros / num_samples divides by zero when nothing is drawn
         fault |-> (n = 0)]

\* the k-element subsets of 0..n-1: every outcome of random.sample
RECURSIVE KSubsets(_, _)
KSubsets(n, k) ==
    IF k = 0 THEN {{}}
    ELSE IF n < k THEN {}
    ELSE KSubsets(n - 1, k) \cup {s \cup {n - 1} : s \in KSubsets(n - 1, k - 1)}

\* the subsets of S with at most k elements
RECURSIVE UpToK(_, _)
UpToK(S, k) ==
    IF k = 0 \/ S = {} THEN {{}}
    ELSE LET x == CHOOSE y \in S : TRUE
         IN  UpToK(S \ {x}, k) \cup {s \cup {x} : s \in UpToK(S \ {x}, k - 1)}

(***************************************************************************)
(* count_by_quadrant: the density of each of the four overlapping          *)
(* quadrants (0: top right, 1: top left, 2: bottom left, 3: bottom right), *)
(* a/b if b != 0 else 0.                                                   *)
(***************************************************************************)
InQuadrant(q, row, col, row_start, col_start) ==
    LET top_bound == row_start + PyDiv(height, 2) + 1
        bottom_bound == row_start + PyDiv(height, 2) - 1
        left_bound == col_start + PyDiv(width, 2) + 1
        right_bound == col_start + PyDiv(width, 2) - 1
    IN  CASE q = 0 -> row < top_bound /\ col > right_bound
          [] q = 1 -> row < top_bound /\ col < left_bound
          [] q = 2 -> row > bottom_bound /\ col < left_bound
          [] OTHER -> row > bottom_bound /\ col > right_bound

\* a/b if b != 0 else 0 for quadrant q: a counts the nonzero entries of the
\* quadrant, b its entries
QuadrantDensity(q, results, row_start, col_start) ==
    LET inq == {r \in results :
                  InQuadrant(q, r[2][1], r[2][2], row_start, col_start)}
        quadrant_counts == Cardinality(inq)
        quadrant_nonzeros == Cardinality({r \in inq : r[3] = 1})
    IN  IF quadrant_counts # 0 THEN <<quadrant_nonzeros, quadrant_counts>>
                               ELSE <<0, 1>>

count_by_quadrant(results, row_start, row_end, col_start, col_end, middle_row, middle_col) ==
    LET q0 == QuadrantDensity(0, results, row_start, col_start)
        q1 == QuadrantDensity(1, results, row_start, col_start)
        q2 == QuadrantDensity(2, results, row_start, col_start)
        q3 == QuadrantDensity(3, results, row_start, col_start)
    IN  [q \in 0..3 |-> CASE q = 0 -> q0 [] q = 1 -> q1 [] q = 2 -> q2 [] OTHER -> q3]

\* quadrant_tuples.sort(key=density, reverse=True): by density, descending;
\* the sort is stable, so equal densities keep the order 0, 1, 2, 3
SortedQuadrants(quadrants) ==
    LET before(a, b) == \/ RatGt(quadrants[a], quadrants[b])
                        \/ RatEq(quadrants[a], quadrants[b]) /\ a < b
        pos(q) == 1 + Cardinality({a \in 0..3 : before(a, q)})
        rank == <<pos(0), pos(1), pos(2), pos(3)>>
        at(p) == CHOOSE q \in 0..3 : rank[q + 1] = p
    IN  <<at(1), at(2), at(3), at(4)>>

\* the bounds create_block sets for a quadrant of the window around (i, j)
QuadrantBounds(quadrant, i, j) ==
    CASE quadrant = 0 -> <<i - 3, i, j, j + 3>>
      [] quadrant = 1 -> <<i - 3, i, j - 3, j>>
      [] quadrant = 2 -> <<i, i + 3, j - 3, j>>
      [] OTHER        -> <<i, i + 3, j, j + 3>>

(***************************************************************************)
(* create_block.  A footprint is <<row_start, row_end, col_start,          *)
(* col_end>>, inclusive.                                                   *)
(***************************************************************************)
\* the ring of 8 around (i, j), in the order the source scans it
Ring(i, j) ==
    << <<i-1, j-1>>, <<i-1, j>>, <<i-1, j+1>>, <<i, j-1>>,
       <<i, j+1>>, <<i+1, j-1>>, <<i+1, j>>, <<i+1, j+1>> >>

\* lines 174-238: the box chosen from the ring when no quadrant is returned
RingBlock(i, j, locs, blkd) ==
    LET ring == Ring(i, j)
        ring_nonzeros_list == {ring[k] : k \in {n \in 1..8 :
                                 ring[n] \in locs /\ ring[n] \notin blkd}}
        ring_nonzeros == Cardinality(ring_nonzeros_list)
    IN  IF ring_nonzeros > 2 THEN <<i - 1, i + 1, j - 1, j + 1>>
        ELSE
          LET empty == ring_nonzeros_list = {}
              cur_row_start == IF empty THEN i
                  ELSE Min2(i, SetMin({x[1] : x \in ring_nonzeros_list}))
              cur_row_end == IF empty THEN i
                  ELSE Max2(i, SetMax({x[1] : x \in ring_nonzeros_list}))
              cur_col_start == IF empty THEN j
                  ELSE Min2(j, SetMin({x[2] : x \in ring_nonzeros_list}))
              cur_col_end == IF empty THEN j
                  ELSE Max2(j, SetMax({x[2] : x \in ring_nonzeros_list}))
              cur_block_height == cur_row_end - cur_row_start + 1
              cur_block_width == cur_col_end - cur_col_start + 1
          IN  IF cur_block_height + cur_block_width = 5
                THEN <<i - 1, i + 1, j - 1, j + 1>>
              ELSE IF cur_block_height + cur_block_width = 3
                THEN IF cur_block_height = 1
                       THEN <<cur_row_start, cur_row_end + 1,
                              cur_col_start, cur_col_end>>
                       ELSE <<cur_row_start, cur_row_end,
                              cur_col_start, cur_col_end + 1>>
              ELSE <<cur_row_start, cur_row_end, cur_col_start, cur_col_end>>

\* what create_block yields when a run_sample divides by zero
ZeroDivisionError == <<"ZeroDivisionError">>

\* the indices of a region whose observation has is_nonzero = 1
HotIndices(locs, blkd, row_start, row_end, col_start, col_end, middle_row, middle_col) ==
    {idx \in 0..(range_size(row_start, row_end, col_start, col_end) - 1) :
       IsNonzero(locs, blkd, SampleCell(idx, row_start, row_end, col_start,
                                        middle_row, middle_col)) = 1}

\* the values num_nonzeros can take over the draws of k of the indices
\* 0..size-1, of which those in hot are observed nonzero: a draw can hold m
\* hot indices iff there are m hot ones and k - m others to draw
NonzeroCounts(size, k, hot) ==
    {m \in 0..k : m <= Cardinality(hot) /\ k - m <= size - Cardinality(hot)}

\* the result of a second run_sample on a quadrant (line 164), over every
\* draw: "dense" when deeper_density > quadrant_threshold, "sparse" when not
DeeperOutcomes(quadrant, i, j, locs, blkd, rate) ==
    LET b == QuadrantBounds(quadrant, i, j)
        k == num_samples(rate, b[1], b[2], b[3], b[4])
        hot == HotIndices(locs, blkd, b[1], b[2], b[3], b[4], i, j)
    IN  IF k = 0 THEN {"ZeroDivisionError"}
        ELSE { IF RatGt(<<m, k>>, quadrant_threshold) THEN "dense" ELSE "sparse"
               : m \in NonzeroCounts(range_size(b[1], b[2], b[3], b[4]), k, hot) }

\* lines 139-172 from position p of quadrant_tuples on, then lines 174-238:
\* every footprint (or fault) the rest of create_block can end with;
\* deeper0..deeper3 are the DeeperOutcomes of the four quadrants
RECURSIVE QuadrantLoop(_, _, _, _, _, _, _, _, _, _, _)
QuadrantLoop(p, order, quadrants, i, j, locs, blkd, deeper0, deeper1, deeper2, deeper3) ==
    IF p > 4 THEN {RingBlock(i, j, locs, blkd)}
    ELSE IF ~RatGt(quadrants[order[p]], quadrant_threshold)
      THEN QuadrantLoop(p + 1, order, quadrants, i, j, locs, blkd,
                        deeper0, deeper1, deeper2, deeper3)
    ELSE LET deeper == CASE order[p] = 0 -> deeper0
                         [] order[p] = 1 -> deeper1
                         [] order[p] = 2 -> deeper2
                         [] OTHER -> deeper3
         IN  (IF "dense" \in deeper THEN {QuadrantBounds(order[p], i, j)} ELSE {})
             \cup (IF "ZeroDivisionError" \in deeper
                     THEN {ZeroDivisionError} ELSE {})
             \cup (IF "sparse" \in deeper
                     THEN QuadrantLoop(p + 1, order, quadrants, i, j, locs, blkd,
                                       deeper0, deeper1, deeper2, deeper3)
                     ELSE {})

\* create_block(i, j, ...): the set of footprints it can return, over the
\* draws `draws` of the first sample (the 7x7 window) and every draw of the
\* second samples ("ZeroDivisionError" when a sample of no cell divides by
\* zero)
create_block(i, j, locs, blkd, rate, draws) ==
    LET row_start == i - 3
        row_end == i + 3
        col_start == j - 3
        col_end == j + 3
        deeper0 == DeeperOutcomes(0, i, j, locs, blkd, rate)
        deeper1 == DeeperOutcomes(1, i, j, locs, blkd, rate)
        deeper2 == DeeperOutcomes(2, i, j, locs, blkd, rate)
        deeper3 == DeeperOutcomes(3, i, j, locs, blkd, rate)
        after(draw) ==
            LET first == run_sample(locs, blkd, rate, row_start, row_end,
                                    col_start, col_end, i, j, draw)
                quadrants == count_by_quadrant(first.results, row_start, row_end,
                                               col_start, col_end, i, j)
            IN  IF first.fault THEN {ZeroDivisionError}
                ELSE QuadrantLoop(1, SortedQuadrants(quadrants), quadrants,
                                  i, j, locs, blkd,
                                  deeper0, deeper1, deeper2, deeper3)
    IN  UNION {after(draw) : draw \in draws}

(***************************************************************************)
(* The draws of the first sample that the model enumerates.  random.sample *)
(* can return any 9 of the 49 indices; the model takes every set A of at   *)
(* most MaxHot indices that are observed nonzero, and completes it to      *)
(* num_samples indices with the lowest free indices of one of the four 3x3 *)
(* corners of the window (corner c lies in quadrant c alone).              *)
(***************************************************************************)
CornerIndices ==
    [c \in 0..3 |->
       {r * width + k : r \in (IF c \in {0, 1} THEN 0..2 ELSE 4..6),
                        k \in (IF c \in {1, 2} THEN 0..2 ELSE 4..6)}]

\* the m lowest indices of corner c that are not in A
Fill(c, A, m) ==
    LET free == CornerIndices[c] \ A
    IN  {x \in free : Cardinality({y \in free : y < x}) < m}

WindowDraws(i, j, locs, blkd, rate) ==
    LET n == num_samples(rate, i - 3, i + 3, j - 3, j + 3)
        hot == HotIndices(locs, blkd, i - 3, i + 3, j - 3, j + 3, i, j)
    IN  { A \cup Fill(c, A, n - Cardinality(A)) :
            A \in UpToK(hot, Min2(MaxHot, n)), c \in 0..3 }

(***************************************************************************)
(* clip_block.  `keys` are the keys of coord_to_block.                     *)
(***************************************************************************)
\* lines 243-264: move a block that is off an edge back by the overflow
ShiftIntoBounds(cur_start, cur_end, matrix_size) ==
    IF cur_end > matrix_size - 1
      THEN <<cur_start - (cur_end - (matrix_size - 1)),
             cur_end - (cur_end - (matrix_size - 1))>>
    ELSE IF cur_start < 0
      THEN <<cur_start - cur_start, cur_end - cur_start>>
    ELSE <<cur_start, cur_end>>

\* lines 267-274: while the top left is a key and can_shrink, move it down
\* the diagonal; the origin the loop ends with
RECURSIVE ShrinkLoop(_, _, _, _, _, _)
ShrinkLoop(cur_row_start, cur_row_end, cur_col_start, cur_col_end, can_shrink, keys) ==
    IF <<cur_row_start, cur_col_start>> \in keys /\ can_shrink
      THEN ShrinkLoop(cur_row_start + 1, cur_row_end,
                      cur_col_start + 1, cur_col_end,
                      ~( \/ cur_row_end - (cur_row_start + 1) = 1
                         \/ cur_col_end - (cur_col_start + 1) = 1 ),
                      keys)
      ELSE <<cur_row_start, cur_col_start>>

\* what clip_block yields when it raises
OriginCollision == <<"OriginCollision">>

\* clip_block without lines 266-279: the block is moved into the bounds and
\* returned, whatever its origin
clip_block_unchecked(cur_row_start, cur_row_end, cur_col_start, cur_col_end, matrix_rows, matrix_cols, keys) ==
    LET r == ShiftIntoBounds(cur_row_start, cur_row_end, matrix_rows)
        c == ShiftIntoBounds(cur_col_start, cur_col_end, matrix_cols)
    IN  <<r[1], r[2], c[1], c[2]>>

clip_block(cur_row_start, cur_row_end, cur_col_start, cur_col_end, matrix_rows, matrix_cols, keys) ==
    LET r == ShiftIntoBounds(cur_row_start, cur_row_end, matrix_rows)
        c == ShiftIntoBounds(cur_col_start, cur_col_end, matrix_cols)
        o == ShrinkLoop(r[1], r[2], c[1], c[2], TRUE, keys)
    IN  IF o \in keys THEN OriginCollision
                      ELSE <<o[1], r[2], o[2], c[2]>>

\* mark_as_blocked: the cells added to blocked
mark_as_blocked(cur_row_start, cur_row_end, cur_col_start, cur_col_end) ==
    Rect(cur_row_start, cur_row_end, cur_col_start, cur_col_end)

(***************************************************************************)
(* The state.  cx is the matrix in coordinate form: shape = cx.shape and   *)
(* cx = the triples zip(cx.row, cx.col, cx.data), in the order given.      *)
(***************************************************************************)
VARIABLES
    shape,                  \* <<rows, cols>>
    cx,                     \* sequence of <<row, col, value>>
    pc,                     \* the stage the program is in
    n,                      \* position of the loop over the nonzeros
    blocked,                \* the dictionary blocked: its keys
    coord_to_block,         \* origin -> block list <<size, row, col, values...>>
    cache_block_to_coords,  \* region -> <<size, count, list of origins>>
    error,                  \* the exception that ended the program, or "none"
    tiles,                  \* history: one record per registration, in order
    region,                 \* <<i, j>> of the loop over the regions
    superblocks,            \* the list superblocks
    block_coords,           \* construct_superblock: its argument
    cur_block,              \* construct_superblock: cur_block
    super_block,            \* construct_superblock: super_block
    remaining_blocks,       \* construct_superblock: remaining_blocks
    blocks_added,           \* construct_superblock: blocks_added
    totals,                 \* what write_superblocks returned, or <<>>
    sampled                 \* a call of run_sample on its own: arguments, result

vars == <<shape, cx, pc, n, blocked, coord_to_block, cache_block_to_coords,
          error, tiles, region, superblocks, block_coords, cur_block,
          super_block, remaining_blocks, blocks_added, totals, sampled>>

\* the variables of construct_superblock
construct_vars == <<block_coords, cur_block, super_block, remaining_blocks,
                    blocks_added>>

\* locations, built by lines 298-299: the last triple of a coordinate wins
locations ==
    [c \in {<<cx[k][1], cx[k][2]>> : k \in 1..Len(cx)} |->
        cx[CHOOSE k \in 1..Len(cx) :
              /\ <<cx[k][1], cx[k][2]>> = c
              /\ \A m \in (k + 1)..Len(cx) : <<cx[m][1], cx[m][2]>> # c][3]]

\* the region computed from the row alone
cache_block_of_row(cur_row_start, cur_col_start) ==
    <<PyDiv(cur_row_start, CACHE_BLOCK_ROWS), PyDiv(cur_row_start, CACHE_BLOCK_COLS)>>

\* the region an origin falls in
cache_block_of(cur_row_start, cur_col_start) ==
    <<PyDiv(cur_row_start, CACHE_BLOCK_ROWS), PyDiv(cur_col_start, CACHE_BLOCK_COLS)>>

\* lines 345-355 and 768-778: add an origin and its cost to its region
AddToRegion(cbtc, cur_row_start, cur_col_start, cost) ==
    LET cb == cache_block_of(cur_row_start, cur_col_start)
        old == IF cb \in DOMAIN cbtc THEN cbtc[cb] ELSE <<0, 0, <<>> >>
        new == <<old[1] + cost, old[2] + 1,
                 Append(old[3], <<cur_row_start, cur_col_start>>)>>
    IN  [k \in DOMAIN cbtc \cup {cb} |-> IF k = cb THEN new ELSE cbtc[k]]

\* lines 345-346 alone: the region's accumulator is created on first use
TouchRegion(cbtc, cur_row_start, cur_col_start) ==
    LET cb == cache_block_of(cur_row_start, cur_col_start)
    IN  [k \in DOMAIN cbtc \cup {cb} |->
           IF k \in DOMAIN cbtc THEN cbtc[k] ELSE <<0, 0, <<>> >>]

\* coord_to_block[origin] = block_list
PutBlock(ctb, origin, block_list) ==
    [k \in DOMAIN ctb \cup {origin} |-> IF k = origin THEN block_list ELSE ctb[k]]

\* lines 318-334: the block list of a clipped footprint
BlockList(cur_row_start, cur_row_end, cur_col_start, cur_col_end, locs, blkd) ==
    LET cur_block_height == cur_row_end - cur_row_start + 1
        cur_block_width == cur_col_end - cur_col_start + 1
        len == Max2(0, cur_block_width * cur_block_height + 3)
        x(count) == PyDiv(count, cur_block_height) + cur_row_start
        y(count) == PyMod(count, cur_block_height) + cur_col_start
    IN  [k \in 1..len |->
           CASE k = 1 -> cur_block_height
             [] k = 2 -> cur_row_start
             [] k = 3 -> cur_col_start
             [] OTHER ->
                  IF <<x(k - 4), y(k - 4)>> \in DOMAIN locs
                     /\ <<x(k - 4), y(k - 4)>> \notin blkd
                    THEN locs[<<x(k - 4), y(k - 4)>>] ELSE 0]

\* one record of the history of registrations
\* (made: the footprint as create_block returned it, before clip_block)
Tile(seed, made, fp, by) ==
    [seed |-> seed, made |-> made, origin |-> <<fp[1], fp[3]>>,
     row_start |-> fp[1], row_end |-> fp[2],
     col_start |-> fp[3], col_end |-> fp[4], by |-> by]

(***************************************************************************)
(* run_blocking, lines 307-361: the body of the loop for the nonzero       *)
(* (i, j) once create_block has returned `cb` (a footprint or a fault).    *)
(* The result is the state the iteration ends in.                          *)
(***************************************************************************)
BlockIteration(i, j, cb) ==
    LET keep == [pc |-> "failed", error |-> "none",
                 coord_to_block |-> coord_to_block,
                 cache_block_to_coords |-> cache_block_to_coords,
                 blocked |-> blocked, tiles |-> tiles]
    IN
    IF cb = ZeroDivisionError THEN [keep EXCEPT !.error = "ZeroDivisionError"]
    ELSE
    LET fp == clip_block(cb[1], cb[2], cb[3], cb[4], shape[1], shape[2],
                         DOMAIN coord_to_block)
    IN
    IF fp = OriginCollision THEN [keep EXCEPT !.error = "OriginCollision"]
    ELSE
    LET cur_block_height == fp[2] - fp[1] + 1
        cur_block_width == fp[4] - fp[3] + 1
        cur_block_list == BlockList(fp[1], fp[2], fp[3], fp[4], locations, blocked)
        registered == PutBlock(coord_to_block, <<fp[1], fp[3]>>, cur_block_list)
        logged == Append(tiles, Tile(<<i, j>>, cb, fp, "run_blocking"))
    IN
    \* cur_block_list[0..2] = ... on a list shorter than 3
    IF cur_block_width * cur_block_height + 3 < 3
      THEN [keep EXCEPT !.error = "IndexError"]
    \* BLOCK_ID_TO_SIZE[cur_block_height], after the block was stored
    ELSE IF cur_block_height \notin BLOCK_ID_KEYS
      THEN [keep EXCEPT !.error = "KeyError",
                        !.coord_to_block = registered,
                        !.cache_block_to_coords =
                            TouchRegion(cache_block_to_coords, fp[1], fp[3]),
                        !.tiles = logged]
    ELSE [pc |-> "blocking", error |-> "none",
          coord_to_block |-> registered,
          cache_block_to_coords |->
              AddToRegion(cache_block_to_coords, fp[1], fp[3],
                          BLOCK_ID_TO_SIZE(cur_block_height)),
          blocked |-> blocked \cup mark_as_blocked(fp[1], fp[2], fp[3], fp[4]),
          tiles |-> logged]

(***************************************************************************)
(* The matrices of the model: a shape of Shapes and up to MaxNnz nonzeros, *)
(* in any order, at distinct coordinates of the last Box rows of the first *)
(* column and of the last Box columns of the last row.  The value at       *)
(* (r, c) is 100 * r + c + 1: nonzero, and distinct per cell.              *)
(***************************************************************************)
Shapes == {<<3, 3>>, <<22, 4>>, <<22, 22>>}

Sites(sh) ==
    ((Max2(0, sh[1] - Box)..(sh[1] - 1)) \X {0})
    \cup ({sh[1] - 1} \X (Max2(0, sh[2] - Box)..(sh[2] - 1)))

ValueAt(c) == 100 * c[1] + c[2] + 1

\* the sequences of at most k distinct elements of S
RECURSIVE Arrangements(_, _)
Arrangements(S, k) ==
    IF k = 0 THEN {<<>>}
    ELSE LET shorter == Arrangements(S, k - 1)
         IN  shorter \cup
             {Append(a, <<c[1], c[2], ValueAt(c)>>) :
                <<a, c>> \in {<<a, c>> \in shorter \X S :
                               /\ Len(a) = k - 1
                               /\ \A m \in 1..Len(a) : <<a[m][1], a[m][2]>> # c}}

\* the state when run_blocking enters its loop (lines 284-304)
Blank ==
    /\ pc = "blocking"
    /\ n = 1
    /\ blocked = {}
    /\ coord_to_block = <<>>
    /\ cache_block_to_coords = <<>>
    /\ error = "none"
    /\ tiles = <<>>
    /\ region = <<0, 0>>
    /\ superblocks = <<>>
    /\ block_coords = <<>>
    /\ cur_block = <<>>
    /\ super_block = <<>>
    /\ remaining_blocks = {}
    /\ blocks_added = 0
    /\ totals = <<>>
    /\ sampled = <<>>

Init ==
    /\ shape \in Shapes
    /\ cx \in Arrangements(Sites(shape), MaxNnz)
    /\ Blank

(***************************************************************************)
(* run_blocking: one iteration of the loop of lines 307-361.               *)
(***************************************************************************)
BlockStep ==
    /\ pc = "blocking"
    /\ n <= Len(cx)
    /\ LET i == cx[n][1]
           j == cx[n][2]
           locs == DOMAIN locations
       IN  IF <<i, j>> \in blocked
             THEN /\ n' = n + 1
                  /\ UNCHANGED <<pc, blocked, coord_to_block,
                                 cache_block_to_coords, error, tiles>>
             ELSE \E o \in { BlockIteration(i, j, cb) :
                               cb \in create_block(i, j, locs, blocked, sampling_rate,
                                                   WindowDraws(i, j, locs, blocked,
                                                               sampling_rate)) } :
                    /\ pc' = o.pc
                    /\ error' = o.error
                    /\ coord_to_block' = o.coord_to_block
                    /\ cache_block_to_coords' = o.cache_block_to_coords
                    /\ blocked' = o.blocked
                    /\ tiles' = o.tiles
                    /\ n' = IF o.pc = "failed" THEN n ELSE n + 1
    /\ UNCHANGED <<shape, cx, region, superblocks, construct_vars, totals, sampled>>

\* run_blocking returns (line 384); the module's second loop starts
BlockingReturns ==
    /\ pc = "blocking"
    /\ n > Len(cx)
    /\ pc' = "reblocking"
    /\ n' = 1
    /\ UNCHANGED <<shape, cx, blocked, coord_to_block, cache_block_to_coords,
                   error, tiles, region, superblocks, construct_vars, totals,
                   sampled>>

(***************************************************************************)
(* The module's second pass, lines 754-784: one iteration.                 *)
(***************************************************************************)
ReblockStep ==
    /\ pc = "reblocking"
    /\ n <= Len(cx)
    /\ LET i == cx[n][1]
           j == cx[n][2]
           v == cx[n][3]
       IN  IF <<i, j>> \in blocked
             THEN UNCHANGED <<blocked, coord_to_block, cache_block_to_coords, tiles>>
             ELSE /\ coord_to_block' = PutBlock(coord_to_block, <<i, j>>, <<1, i, j, v>>)
                  /\ cache_block_to_coords' =
                        AddToRegion(cache_block_to_coords, i, j, BLOCK_ID_TO_SIZE(1))
                  /\ blocked' = blocked \cup mark_as_blocked(i, i, j, j)
                  /\ tiles' = Append(tiles, Tile(<<i, j>>, <<i, i, j, j>>,
                                                <<i, i, j, j>>, "reblocking"))
    /\ n' = n + 1
    /\ UNCHANGED <<shape, cx, pc, error, region, superblocks, construct_vars,
                   totals, sampled>>

\* the second loop ends; the loop over the regions starts
ReblockingEnds ==
    /\ pc = "reblocking"
    /\ n > Len(cx)
    /\ pc' = "arranging"
    /\ region' = <<0, 0>>
    /\ UNCHANGED <<shape, cx, n, blocked, coord_to_block, cache_block_to_coords,
                   error, tiles, superblocks, construct_vars, totals, sampled>>

(***************************************************************************)
(* construct_superblock.  The KD-tree holds the points of block_coords;    *)
(* query(cur_block, k=20, p=inf, distance_upper_bound=CACHE_LINE_SIZE)     *)
(* returns, nearest first, at most k points at a Chebyshev distance below  *)
(* the bound; the order among points at the same distance is not fixed.    *)
(***************************************************************************)
\* the distance under p = inf
Distance(a, b) == Max2(Abs(a[1] - b[1]), Abs(a[2] - b[2]))

\* np.lexsort((block_coords[:, 1], block_coords[:, 0]))[0]: the first point
\* by row, then by column
RowFirstHead(coords) ==
    CHOOSE a \in coords :
      \A b \in coords : a[1] < b[1] \/ (a[1] = b[1] /\ a[2] <= b[2])

\* the sets of points a query from cur can return
QueryResults(points, cur) ==
    LET in_range == {b \in points : Distance(b, cur) < CACHE_LINE_SIZE}
    IN  IF Cardinality(in_range) <= QUERY_K THEN {in_range}
        ELSE {R \in SUBSET in_range :
                /\ Cardinality(R) = QUERY_K
                /\ \A a \in R, b \in in_range \ R :
                     Distance(a, cur) <= Distance(b, cur)}

\* the loop of lines 440-447 without its test of coords_in_super_block
QueryPicksUnfiltered(points, cur, visited) ==
    UNION { {u \in R : \A v \in R : Distance(v, cur) <= Distance(u, cur)}
            : R \in QueryResults(points, cur) }

\* lines 440-447: the loop keeps the last candidate that is not yet in the
\* superblock, so one at the largest distance among those returned
QueryPicks(points, cur, visited) ==
    UNION { LET unvisited == R \ visited
            IN  {u \in unvisited :
                   \A v \in unvisited : Distance(v, cur) <= Distance(u, cur)}
            : R \in QueryResults(points, cur) }

\* what the brute-force loop yields when remaining_blocks.pop() finds the
\* set empty
KeyError == <<"KeyError">>

\* lines 491-499: pop from remaining_blocks until a point outside the
\* superblock comes out; the pairs <<next_block, remaining_blocks after>>
RECURSIVE BruteForce(_, _)
BruteForce(remaining, visited) ==
    IF remaining = {} THEN {KeyError}
    ELSE UNION { IF cand_block \notin visited
                   THEN {<<cand_block, remaining \ {cand_block}>>}
                   ELSE BruteForce(remaining \ {cand_block}, visited)
                 : cand_block \in remaining }

\* the elements of a sequence
Elements(seq) == {seq[k] : k \in 1..Len(seq)}

(***************************************************************************)
(* write_superblocks: the three totals it returns.                         *)
(***************************************************************************)
RECURSIVE SumOver(_, _)
SumOver(f, S) ==
    IF S = {} THEN 0
    ELSE LET x == CHOOSE y \in S : TRUE IN f[x] + SumOver(f, S \ {x})

write_superblocks(sblocks, ctb) ==
    LET written == UNION {{s} \X (1..Len(sblocks[s][3])) : s \in 1..Len(sblocks)}
        block_at(w) == ctb[sblocks[w[1]][3][w[2]]]
        area == [w \in written |-> Len(block_at(w)) - 3]
        nonzero == [w \in written |->
                      Cardinality({k \in 4..Len(block_at(w)) : block_at(w)[k] # 0})]
    IN  <<Cardinality(written), SumOver(area, written), SumOver(nonzero, written)>>

(***************************************************************************)
(* The loop over the regions, lines 788-797.                               *)
(***************************************************************************)
\* the region after <<i, j>> in range(rows/R + 1) x range(cols/C + 1)
NextRegion(r) ==
    IF r[2] < PyDiv(shape[2], CACHE_BLOCK_COLS) THEN <<r[1], r[2] + 1>>
                                                ELSE <<r[1] + 1, 0>>

RegionsLeft == region[1] <= PyDiv(shape[1], CACHE_BLOCK_ROWS)

\* one iteration up to the call of construct_superblock, and the call up to
\* its loop (lines 400-429)
RegionStep ==
    /\ pc = "arranging"
    /\ RegionsLeft
    /\ IF region \notin DOMAIN cache_block_to_coords
         THEN /\ region' = NextRegion(region)
              /\ UNCHANGED <<pc, superblocks, construct_vars>>
         ELSE LET unordered_sblock == cache_block_to_coords[region][3]
              IN  IF Len(unordered_sblock) < 1
                    THEN /\ superblocks' =
                              Append(superblocks,
                                     <<cache_block_to_coords[region][1],
                                       cache_block_to_coords[region][2], <<>> >>)
                         /\ region' = NextRegion(region)
                         /\ UNCHANGED <<pc, construct_vars>>
                    ELSE LET first == RowFirstHead(Elements(unordered_sblock))
                         IN  /\ block_coords' = unordered_sblock
                             /\ cur_block' = first
                             /\ super_block' = <<first>>
                             /\ remaining_blocks' = Elements(unordered_sblock) \ {first}
                             /\ blocks_added' = 1
                             /\ pc' = "constructing"
                             /\ UNCHANGED <<region, superblocks>>
    /\ UNCHANGED <<shape, cx, n, blocked, coord_to_block, cache_block_to_coords,
                   error, tiles, totals, sampled>>

\* construct_superblock, lines 431-513: one round of its loop
ConstructRound ==
    /\ pc = "constructing"
    /\ blocks_added < Len(block_coords)
    /\ LET visited == Elements(super_block)
           picks == QueryPicks(Elements(block_coords), cur_block, visited)
           \* <<next_block, remaining_blocks after the round>>
           found == IF picks # {}
                      THEN {<<next_block, remaining_blocks \ {next_block}>> :
                              next_block \in picks}
                      ELSE BruteForce(remaining_blocks, visited)
       IN  \E f \in found :
             IF f = KeyError \/ (picks # {} /\ f[1] \notin remaining_blocks)
               THEN /\ pc' = "failed"
                    /\ error' = "KeyError"
                    /\ UNCHANGED construct_vars
               ELSE /\ cur_block' = f[1]
                    /\ super_block' = Append(super_block, f[1])
                    /\ remaining_blocks' = f[2]
                    /\ blocks_added' = blocks_added + 1
                    /\ UNCHANGED <<pc, error, block_coords>>
    /\ UNCHANGED <<shape, cx, n, blocked, coord_to_block, cache_block_to_coords,
                   tiles, region, superblocks, totals, sampled>>

\* construct_superblock returns; the superblock is appended (line 797)
ConstructReturn ==
    /\ pc = "constructing"
    /\ blocks_added >= Len(block_coords)
    /\ superblocks' = Append(superblocks,
                             <<cache_block_to_coords[region][1],
                               cache_block_to_coords[region][2], super_block>>)
    /\ region' = NextRegion(region)
    /\ pc' = "arranging"
    /\ UNCHANGED <<shape, cx, n, blocked, coord_to_block, cache_block_to_coords,
                   error, tiles, construct_vars, totals, sampled>>

\* line 799: write_superblocks
WriteStep ==
    /\ pc = "arranging"
    /\ ~RegionsLeft
    /\ IF \E s \in 1..Len(superblocks) :
            Elements(superblocks[s][3]) \ DOMAIN coord_to_block # {}
         THEN /\ pc' = "failed"
              /\ error' = "KeyError"
              /\ UNCHANGED totals
         ELSE /\ totals' = write_superblocks(superblocks, coord_to_block)
              /\ pc' = "done"
              /\ UNCHANGED error
    /\ UNCHANGED <<shape, cx, n, blocked, coord_to_block, cache_block_to_coords,
                   tiles, region, superblocks, construct_vars, sampled>>

Next ==
    \/ BlockStep
    \/ BlockingReturns
    \/ ReblockStep
    \/ ReblockingEnds
    \/ RegionStep
    \/ ConstructRound
    \/ ConstructReturn
    \/ WriteStep

Spec == Init /\ [][Next]_vars

(***************************************************************************)
(* The same program on matrices of isolated nonzeros: a 22x22 matrix with  *)
(* up to MaxFar nonzeros, in any order, on the grid of the rows 0, 9, 18   *)
(* and the columns 0, 18.  No nonzero is in the window of another, all of  *)
(* them fall in region (0, 0), and two of them are 9 or 18 apart: within   *)
(* reach of a query or not.                                                *)
(***************************************************************************)
FarSites == {0, 9, 18} \X {0, 18}

InitFar ==
    /\ shape = <<22, 22>>
    /\ cx \in Arrangements(FarSites, MaxFar)
    /\ Blank

SpecFar == InitFar /\ [][Next]_vars

(***************************************************************************)
(* Properties.                                                             *)
(***************************************************************************)
\* the blocking stage (run_blocking and the second pass) has finished
BlockingFinished == pc \in {"arranging", "constructing", "done"}

\* the coordinates of the nonzeros of the matrix
NonzeroCoords == {<<cx[k][1], cx[k][2]>> : k \in 1..Len(cx)}

\* the cells of a registered tile
Footprint(t) == Rect(t.row_start, t.row_end, t.col_start, t.col_end)

\* the registrations made by run_blocking
MainTiles == {k \in 1..Len(tiles) : tiles[k].by = "run_blocking"}

\* C1: once the blocking stage has finished, every nonzero coordinate lies
\* inside the footprint of exactly one registered tile
C1_ExactlyOneTile ==
    BlockingFinished =>
      \A c \in NonzeroCoords :
        Cardinality({k \in 1..Len(tiles) : c \in Footprint(tiles[k])}) = 1

\* C2: every footprint that clip_block returned and run_blocking registered
\* lies inside the matrix, with row_start <= row_end and col_start <= col_end
C2_FootprintInBounds ==
    \A k \in MainTiles :
      /\ 0 <= tiles[k].row_start /\ tiles[k].row_start <= tiles[k].row_end
      /\ tiles[k].row_end <= shape[1] - 1
      /\ 0 <= tiles[k].col_start /\ tiles[k].col_start <= tiles[k].col_end
      /\ tiles[k].col_end <= shape[2] - 1

\* C3: no two distinct tiles registered by run_blocking have intersecting
\* footprints
C3_NoOverlap ==
    \A k \in MainTiles, m \in MainTiles :
      k # m => Footprint(tiles[k]) \cap Footprint(tiles[m]) = {}

\* C4: every registration, in run_blocking and in the second pass, uses an
\* origin that is not yet a key of coord_to_block; a step in which
\* clip_block raises registers nothing; and clip_block, given a 3x3 or a 4x4
\* box in the top left corner and any keys on its diagonal, raises or
\* returns an origin that is not a key
C4_OriginNotYetKey ==
    [][ /\ Len(tiles') > Len(tiles) =>
             tiles'[Len(tiles')].origin \notin DOMAIN coord_to_block
        /\ error' = "OriginCollision" => coord_to_block' = coord_to_block
        /\ \A keys \in SUBSET {<<0, 0>>, <<1, 1>>, <<2, 2>>} :
             \A cur_end \in {2, 3} :
               LET fp == clip_block(0, cur_end, 0, cur_end, shape[1], shape[2], keys)
               IN  fp = OriginCollision \/ <<fp[1], fp[3]>> \notin keys ]_vars

\* C5: every registered tile is square and holds edge * edge values, edge
\* being its first field
C5_SquareTiles ==
    \A k \in 1..Len(tiles) :
      LET t == tiles[k]
          whole_block == coord_to_block[t.origin]
      IN  /\ t.col_end - t.col_start = t.row_end - t.row_start
          /\ whole_block[1] = t.row_end - t.row_start + 1
          /\ Len(whole_block) - 3 = whole_block[1] * whole_block[1]

\* C6: the stored-nonzero count returned by write_superblocks equals the
\* number of nonzeros of the matrix
C6_StoredNonzeros == pc = "done" => totals[3] = Len(cx)

\* C7: when construct_superblock returns, super_block is a permutation of
\* the origins it was given, and construct_superblock does not fail
C7_Permutation ==
    /\ (pc = "constructing" /\ blocks_added >= Len(block_coords)) =>
          /\ Len(super_block) = Len(block_coords)
          /\ Elements(super_block) = Elements(block_coords)
          /\ Cardinality(Elements(super_block)) = Len(super_block)
    /\ pc = "failed" => blocks_added = 0

\* C8: the origin of every tile whose registration was completed is listed
\* exactly once, in the list of region (row_start div CACHE_BLOCK_ROWS,
\* col_start div CACHE_BLOCK_COLS), and in no other list
C8_OneRegion ==
    \A k \in 1..Len(tiles) :
      (pc = "failed" /\ k = Len(tiles)) \/
      \A r \in DOMAIN cache_block_to_coords :
        LET coords == cache_block_to_coords[r][3]
            times == Cardinality({p \in 1..Len(coords) : coords[p] = tiles[k].origin})
        IN  times = IF r = <<tiles[k].row_start \div CACHE_BLOCK_ROWS,
                             tiles[k].col_start \div CACHE_BLOCK_COLS>>
                      THEN 1 ELSE 0

\* C9: the tile run_blocking builds for a seed covers the seed, which is
\* then in blocked
C9_SeedCovered ==
    \A k \in MainTiles :
      tiles[k].seed \in Footprint(tiles[k]) /\ tiles[k].seed \in blocked

\* C4 witness: run_blocking registered a tile whose origin clip_block moved
\* down the diagonal off the origin of an earlier tile, and the second pass
\* registered a tile too
C4_ShiftedAndReblocked ==
    /\ \E k \in MainTiles :
         LET t == tiles[k]
             r == ShiftIntoBounds(t.made[1], t.made[2], shape[1])
             c == ShiftIntoBounds(t.made[3], t.made[4], shape[2])
         IN  /\ t.origin # <<r[1], c[1]>>
             /\ \E m \in 1..(k - 1) : tiles[m].origin = <<r[1], c[1]>>
    /\ \E k \in 1..Len(tiles) : tiles[k].by = "reblocking"

\* C7 witness: construct_superblock returns four or more origins, one of
\* them found by a query and one taken by the brute-force loop (no query
\* reaches that far)
C7_ReturnsAfterBruteForce ==
    /\ pc = "constructing"
    /\ blocks_added >= Len(block_coords)
    /\ Len(super_block) >= 4
    /\ \E k \in 1..(Len(super_block) - 1) :
         Distance(super_block[k], super_block[k + 1]) >= CACHE_LINE_SIZE
    /\ \E k \in 1..(Len(super_block) - 1) :
         Distance(super_block[k], super_block[k + 1]) < CACHE_LINE_SIZE

\* C8 witness: the program is done with a tile of run_blocking and a tile
\* of the second pass listed in different regions
C8_TwoRegionsBothPasses ==
    /\ pc = "done"
    /\ \E k \in 1..Len(tiles), m \in 1..Len(tiles) :
         /\ tiles[k].by = "run_blocking"
         /\ tiles[m].by = "reblocking"
         /\ \E r \in DOMAIN cache_block_to_coords, q \in DOMAIN cache_block_to_coords :
              /\ r # q
              /\ tiles[k].origin \in Elements(cache_block_to_coords[r][3])
              /\ tiles[m].origin \in Elements(cache_block_to_coords[q][3])

(***************************************************************************)
(* run_sample on its own: the calls create_block makes for a seed (the     *)
(* window, line 135, and the four quadrants, line 164), one call per       *)
(* behaviour.  Every draw is enumerated on a region of at most MaxEnum     *)
(* cells; on a larger one, the draws are the runs of consecutive indices.  *)
(***************************************************************************)
SampleDraws(size, k) ==
    IF size <= MaxEnum THEN KSubsets(size, k)
    ELSE {s..(s + k - 1) : s \in 0..(size - k)}

\* the regions create_block samples around the seed (i, j)
SampledRegions(i, j) ==
    {<<i - 3, i + 3, j - 3, j + 3>>} \cup {QuadrantBounds(q, i, j) : q \in 0..3}

InitSample ==
    /\ shape = <<22, 4>>
    /\ cx \in {a \in Arrangements(Sites(shape), 1) : Len(a) = 1}
    /\ pc = "sampling"
    /\ n = 1
    /\ blocked = {}
    /\ coord_to_block = <<>>
    /\ cache_block_to_coords = <<>>
    /\ error = "none"
    /\ tiles = <<>>
    /\ region = <<0, 0>>
    /\ superblocks = <<>>
    /\ block_coords = <<>>
    /\ cur_block = <<>>
    /\ super_block = <<>>
    /\ remaining_blocks = {}
    /\ blocks_added = 0
    /\ totals = <<>>
    /\ \E b \in SampledRegions(cx[1][1], cx[1][2]) :
         \E draw \in SampleDraws(range_size(b[1], b[2], b[3], b[4]),
                                 num_samples(sampling_rate, b[1], b[2], b[3], b[4])) :
           sampled = [row_start |-> b[1], row_end |-> b[2],
                      col_start |-> b[3], col_end |-> b[4],
                      middle_row |-> cx[1][1], middle_col |-> cx[1][2],
                      draw |-> draw, results |-> {}]

\* the call returns
SampleStep ==
    /\ pc = "sampling"
    /\ sampled' =
         [sampled EXCEPT !.results =
            run_sample(DOMAIN locations, blocked, sampling_rate,
                       sampled.row_start, sampled.row_end,
                       sampled.col_start, sampled.col_end,
                       sampled.middle_row, sampled.middle_col,
                       sampled.draw).results]
    /\ pc' = "sampled"
    /\ UNCHANGED <<shape, cx, n, blocked, coord_to_block, cache_block_to_coords,
                   error, tiles, region, superblocks, construct_vars, totals>>

NextSample == SampleStep

SpecSample == InitSample /\ [][NextSample]_vars

\* C10: the observation list run_sample returns has floor(rate * area)
\* entries, at pairwise distinct coordinates, all inside the region, none
\* of them the seed
C10_SampleCells ==
    pc = "sampled" =>
      /\ Cardinality(sampled.results) =
           num_samples(sampling_rate, sampled.row_start, sampled.row_end,
                       sampled.col_start, sampled.col_end)
      /\ \A a \in sampled.results, b \in sampled.results :
           a # b => a[2] # b[2]
      /\ \A a \in sampled.results :
           /\ a[2] \in Rect(sampled.row_start, sampled.row_end,
                            sampled.col_start, sampled.col_end)
           /\ a[2] # <<sampled.middle_row, sampled.middle_col>>

(***************************************************************************)
(* create_block on its own, with sampling_rate as the argument it is: the  *)
(* call run_blocking makes for the first nonzero of a 22x4 matrix (nothing *)
(* is blocked yet), at one of the rates Rates.  int(range_size * rate) is  *)
(* 0, 2, 4, 9 on the 7x7 window and 0, 0, 1, 3 on a 4x4 quadrant.          *)
(***************************************************************************)
\* the matrices of these calls hold at most MaxRateNnz nonzeros
MaxRateNnz == 2

\* 0.01, 0.05, 0.1 and the module's 0.2
Rates == {<<1, 100>>, <<5, 100>>, <<1, 10>>, sampling_rate}

InitRate ==
    /\ shape = <<22, 4>>
    /\ cx \in {a \in Arrangements(Sites(shape), MaxRateNnz) : Len(a) >= 1}
    /\ pc = "creating"
    /\ n = 1
    /\ blocked = {}
    /\ coord_to_block = <<>>
    /\ cache_block_to_coords = <<>>
    /\ error = "none"
    /\ tiles = <<>>
    /\ region = <<0, 0>>
    /\ superblocks = <<>>
    /\ block_coords = <<>>
    /\ cur_block = <<>>
    /\ super_block = <<>>
    /\ remaining_blocks = {}
    /\ blocks_added = 0
    /\ totals = <<>>
    /\ \E rate \in Rates :
         sampled = [rate |-> rate, i |-> cx[1][1], j |-> cx[1][2], made |-> <<>>]

\* the call returns a footprint, or ends in a ZeroDivisionError
CreateStep ==
    /\ pc = "creating"
    /\ \E cb \in create_block(sampled.i, sampled.j, DOMAIN locations, blocked,
                              sampled.rate,
                              WindowDraws(sampled.i, sampled.j, DOMAIN locations,
                                          blocked, sampled.rate)) :
         sampled' = [sampled EXCEPT !.made = cb]
    /\ pc' = "created"
    /\ UNCHANGED <<shape, cx, n, blocked, coord_to_block, cache_block_to_coords,
                   error, tiles, region, superblocks, construct_vars, totals>>

NextRate == CreateStep

SpecRate == InitRate /\ [][NextRate]_vars

\* C11: create_block returns a footprint at every rate, also when a sample
\* (of the window or of a quadrant) draws no observation: no division fault
\* ends the call
C11_NoDivisionFault ==
    pc = "created" => sampled.made # ZeroDivisionError

(***************************************************************************)
(* clip_block on its own: a box of one of the shapes create_block returns  *)
(* (1x1, 2x2, 3x3, 4x4, 3x1, 1x3) near the top left corner of the matrix,  *)
(* and a dictionary coord_to_block whose keys lie on the diagonal.         *)
(***************************************************************************)
\* the keys of coord_to_block lie on the first MaxDiag cells of the diagonal
MaxDiag == 4

\* <<height, width>> of the boxes create_block returns
BoxShapes == {<<1, 1>>, <<2, 2>>, <<3, 3>>, <<4, 4>>, <<3, 1>>, <<1, 3>>}

ClipBoxes ==
    {<<o, o + hw[1] - 1, o, o + hw[2] - 1>> : o \in {-1, 0, 1}, hw \in BoxShapes}

ClipKeys == SUBSET {<<d, d>> : d \in 0..(MaxDiag - 1)}

InitClip ==
    /\ shape \in {<<22, 4>>, <<22, 22>>}
    /\ cx = <<>>
    /\ pc = "clipping"
    /\ n = 1
    /\ blocked = {}
    /\ coord_to_block = <<>>
    /\ cache_block_to_coords = <<>>
    /\ error = "none"
    /\ tiles = <<>>
    /\ region = <<0, 0>>
    /\ superblocks = <<>>
    /\ block_coords = <<>>
    /\ cur_block = <<>>
    /\ super_block = <<>>
    /\ remaining_blocks = {}
    /\ blocks_added = 0
    /\ totals = <<>>
    /\ \E box \in ClipBoxes, keys \in ClipKeys :
         sampled = [box |-> box, keys |-> keys, clipped |-> <<>>]

\* the call returns a footprint, or raises
ClipStep ==
    /\ pc = "clipping"
    /\ sampled' =
         [sampled EXCEPT !.clipped =
            clip_block(sampled.box[1], sampled.box[2], sampled.box[3],
                       sampled.box[4], shape[1], shape[2], sampled.keys)]
    /\ pc' = "clipped"
    /\ UNCHANGED <<shape, cx, n, blocked, coord_to_block, cache_block_to_coords,
                   error, tiles, region, superblocks, construct_vars, totals>>

NextClip == ClipStep

SpecClip == InitClip /\ [][NextClip]_vars

AxisNear(cur, S) ==
    {b \in S : \/ Abs(b[1] - cur[1]) <= CACHE_LINE_SIZE
               \/ Abs(b[2] - cur[2]) <= CACHE_LINE_SIZE}

\* C13: in a round of construct_superblock in which no candidate of the
\* query is unvisited, the next origin is an unvisited origin within
\* CACHE_LINE_SIZE of the current one along an axis, whenever there is one
C13_ScanBeforeArbitrary ==
    [][ ( /\ pc = "constructing"
          /\ blocks_added' = blocks_added + 1
          /\ QueryPicks(Elements(block_coords), cur_block,
                        Elements(super_block)) = {} )
        => LET unvisited == Elements(block_coords) \ Elements(super_block)
               near == AxisNear(cur_block, unvisited)
           IN  near # {} => cur_block' \in near ]_vars

\* lines 328-330: the cells the fill loop of run_blocking looks up for the
\* footprint fp
ReadCells(fp) ==
    LET cur_block_height == fp[2] - fp[1] + 1
        cur_block_width == fp[4] - fp[3] + 1
    IN  {<<PyDiv(count, cur_block_height) + fp[1],
           PyMod(count, cur_block_height) + fp[3]>> :
           count \in 0..(cur_block_width * cur_block_height - 1)}

\* C14: the values of every registered tile are the row-major image of its
\* footprint (the matrix value at a nonzero, 0 elsewhere), and the fill
\* loop looks up no cell outside the footprint
C14_RowMajorImage ==
    \A k \in 1..Len(tiles) :
      LET t == tiles[k]
          h == t.row_end - t.row_start + 1
          w == t.col_end - t.col_start + 1
          whole_block == coord_to_block[t.origin]
      IN  /\ Len(whole_block) - 3 = h * w
          /\ \A c \in Footprint(t) :
               whole_block[4 + (c[1] - t.row_start) * w + (c[2] - t.col_start)]
                 = IF c \in DOMAIN locations THEN locations[c] ELSE 0
          /\ ReadCells(<<t.row_start, t.row_end, t.col_start, t.col_end>>)
               \subseteq Footprint(t)

\* the regions the loop of lines 790-791 visits
VisitedRegions ==
    (0..PyDiv(shape[1], CACHE_BLOCK_ROWS)) \X (0..PyDiv(shape[2], CACHE_BLOCK_COLS))

\* the places <<superblock, position>> of the tiles write_superblocks writes
WrittenPlaces ==
    UNION {{s} \X (1..Len(superblocks[s][3])) : s \in 1..Len(superblocks)}

\* C15: when the program is done, every region that holds a tile was
\* visited, every key of coord_to_block was written exactly once, nothing
\* else was written, and the count of each superblock is the number of its
\* tiles
C15_EveryTileWritten ==
    pc = "done" =>
      /\ DOMAIN cache_block_to_coords \subseteq VisitedRegions
      /\ \A origin \in DOMAIN coord_to_block :
           Cardinality({w \in WrittenPlaces :
                          superblocks[w[1]][3][w[2]] = origin}) = 1
      /\ \A w \in WrittenPlaces :
           superblocks[w[1]][3][w[2]] \in DOMAIN coord_to_block
      /\ \A s \in 1..Len(superblocks) :
           superblocks[s][2] = Len(superblocks[s][3])

====
